---- MODULE Spec2Model ----
(***************************************************************************)
(* A model of RayParticle3D.h: Particle, Emitter and ParticleSystem.       *)
(*                                                                         *)
(* Numbers.  Time is counted in ticks of 1/TicksPerSec seconds: dt, age    *)
(* and ttl are whole numbers of ticks.  The accumulator mustEmit is kept   *)
(* in units of 1/TicksPerSec particle, so that                             *)
(*     mustEmit += dt * emissionRate      is   mustEmit + dt*emissionRate  *)
(*     static_cast<size_t>(mustEmit)      is   mustEmit \div TicksPerSec   *)
(*     --mustEmit                         is   mustEmit - TicksPerSec      *)
(* The inputs are chosen so that the float operations of the source are    *)
(* exact on them (0.1f * 100.0f is 10.0f, sums of quarters are exact), so  *)
(* the integers of the model carry the values the floats carry.            *)
(*                                                                         *)
(* Vectors.  Every emitter of the model has direction (0,1,0), angle       *)
(* ranges {0,0} (Rotate is then the identity) and origin and external      *)
(* acceleration on the y axis, so every Vector3 stays on the y axis and is *)
(* modelled by its y component.  Lengths are integers; velocities are      *)
(* lengths per tick.                                                       *)
(***************************************************************************)
EXTENDS Integers, Sequences, FiniteSets, TLC

\* ---------------------------------------------------------------- bounds
\* Largest pool of the general configurations.
MaxCapacity == 2
\* Largest sampled lifetime, in ticks.
MaxTtl == 2
\* Largest frame time, in ticks.
MaxDt == 2
\* Largest burst amount a configuration asks for.
MaxBurst == 2
\* Update is not called once the spawn budget would exceed the pool by more.
MaxBacklog == 1
\* Emitters registered into one ParticleSystem.
MaxEmitters == 3

TicksPerSec == 4 * 5

DtSet == 1..MaxDt
Origins == {0, 8}

\* ---------------------------------------------------------------- helpers
Min(a, b) == IF a <= b THEN a ELSE b
Abs(x) == IF x < 0 THEN -x ELSE x

RECURSIVE GCD(_, _)
GCD(a, b) == IF b = 0 THEN a ELSE GCD(b, a % b)

\* A float that is not a whole number: the fraction n/d in lowest terms.
Rat(n, d) == LET g == GCD(n, d) IN <<n \div g, d \div g>>

\* Vector3Normalize restricted to the y axis (raymath leaves the zero vector).
Vector3Normalize(v) == IF v > 0 THEN 1 ELSE IF v < 0 THEN -1 ELSE 0

\* FloatRange::RandomValue and IntRange::RandomValue: any value of the range.
RandomValue(r) == r.min..r.max

\* The values one Particle::Init draws, in the order Init draws them.
SampleSet(cfg) ==
    [velocity : RandomValue(cfg.velocity),
     offset : RandomValue(cfg.offset),
     originAcceleration : RandomValue(cfg.originAcceleration),
     ttl : RandomValue(cfg.age)]

\* ---------------------------------------------------------------- Particle
\* A value-initialized Particle: what vector::resize leaves in every slot.
ZeroParticle ==
    [origin |-> 0, position |-> 0, velocity |-> 0, externalAcceleration |-> 0,
     originAcceleration |-> 0, age |-> 0, ttl |-> 0, scale |-> <<0, 1>>,
     active |-> FALSE]

IsExpired_NonStrict(p) == p.age >= p.ttl

IsExpired(p) == p.age > p.ttl

ParticleInit_StaleOrigin(p, cfg, s) ==
    [origin |-> p.origin,
     velocity |-> cfg.direction * s.velocity,
     position |-> p.origin + cfg.direction * s.offset,
     originAcceleration |-> s.originAcceleration,
     externalAcceleration |-> cfg.externalAcceleration,
     age |-> 0, ttl |-> s.ttl, scale |-> <<1, 1>>, active |-> TRUE]

\* Init as it would be if it did not reset age.
ParticleInit_KeepsAge(p, cfg, s) ==
    [origin |-> cfg.origin,
     velocity |-> cfg.direction * s.velocity,
     position |-> cfg.origin + cfg.direction * s.offset,
     originAcceleration |-> s.originAcceleration,
     externalAcceleration |-> cfg.externalAcceleration,
     age |-> p.age, ttl |-> s.ttl, scale |-> <<1, 1>>, active |-> TRUE]

ParticleInit(p, cfg, s) ==
    [origin |-> cfg.origin,
     velocity |-> cfg.direction * s.velocity,
     position |-> cfg.origin + cfg.direction * s.offset,
     originAcceleration |-> s.originAcceleration,
     externalAcceleration |-> cfg.externalAcceleration,
     age |-> 0, ttl |-> s.ttl, scale |-> <<1, 1>>, active |-> TRUE]

\* The physics of one step as it would be with a bounce that loses no energy.
ParticleMove_FullBounce(p, dt, cfg) ==
    LET v1 == p.velocity - cfg.gravity * dt
        toOrigin == Vector3Normalize(p.origin - p.position)
        v2 == v1 + toOrigin * (p.originAcceleration * dt)
        v3 == v2 + p.externalAcceleration * dt
        pos == p.position + v3 * dt
        hit == cfg.collision /\ pos <= 0
        posF == IF hit THEN 0 ELSE pos
        velF == IF hit THEN -v3 ELSE v3
    IN [p EXCEPT !.velocity = velF, !.position = posF,
                 !.scale = Rat(10, Abs(posF - cfg.origin) + 10)]

\* The physics of one step, lines 78-89: the particle is active and not expired.
ParticleMove(p, dt, cfg) ==
    LET v1 == p.velocity - cfg.gravity * dt
        toOrigin == Vector3Normalize(p.origin - p.position)
        v2 == v1 + toOrigin * (p.originAcceleration * dt)
        v3 == v2 + p.externalAcceleration * dt
        pos == p.position + v3 * dt
        hit == cfg.collision /\ pos <= 0
        posF == IF hit THEN 0 ELSE pos
        \* velocity.y *= -0.5f: the configurations keep v3 even where it bounces
        velF == IF hit THEN -(v3 \div 2) ELSE v3
    IN [p EXCEPT !.velocity = velF, !.position = posF,
                 !.scale = Rat(10, Abs(posF - cfg.origin) + 10)]

\* Particle::Update as it would be if the expiry test came after the physics.
ParticleUpdate_MovesThenExpires(p, dt, cfg) ==
    IF ~p.active THEN p
    ELSE LET moved == ParticleMove([p EXCEPT !.age = @ + dt], dt, cfg)
         IN IF IsExpired(moved) THEN [moved EXCEPT !.active = FALSE] ELSE moved

ParticleUpdate(p, dt, cfg) ==
    IF ~p.active THEN p
    ELSE LET aged == [p EXCEPT !.age = @ + dt]
         IN IF IsExpired(aged) THEN [aged EXCEPT !.active = FALSE]
            ELSE ParticleMove(aged, dt, cfg)

\* ---------------------------------------------------------------- Emitter
\* The constructor as it would be if it kept a spare slot beyond capacity.
NewEmitter_SpareSlot(cfg) ==
    [config |-> [cfg EXCEPT !.direction = Vector3Normalize(@)], mustEmit |-> 0, isEmitting |-> FALSE,
     particles |-> [i \in 1..(cfg.capacity + 1) |-> ZeroParticle]]

NewEmitter(cfg) ==
    [config |-> [cfg EXCEPT !.direction = Vector3Normalize(@)], mustEmit |-> 0, isEmitting |-> FALSE,
     particles |-> [i \in 1..cfg.capacity |-> ZeroParticle]]

EmitterStart(e) == [e EXCEPT !.isEmitting = TRUE]

EmitterStop_ResetsAccumulator(e) == [e EXCEPT !.isEmitting = FALSE, !.mustEmit = 0]

EmitterStop(e) == [e EXCEPT !.isEmitting = FALSE]

\* Burst as it would be over a pool that grows when no free slot is left.
RECURSIVE BurstFrom_Grows(_, _, _, _, _, _)
BurstFrom_Grows(ps, i, emitted, amount, cfg, smp) ==
    IF i > Len(ps)
    THEN IF emitted < amount
         THEN Append(ps, ParticleInit(ZeroParticle, cfg,
                                      CHOOSE x \in SampleSet(cfg) : TRUE))
         ELSE ps
    ELSE IF ~ps[i].active
         THEN LET ps2 == [ps EXCEPT ![i] = ParticleInit(ps[i], cfg, smp[i])]
              IN IF emitted + 1 >= amount THEN ps2
                 ELSE BurstFrom_Grows(ps2, i + 1, emitted + 1, amount, cfg, smp)
         ELSE BurstFrom_Grows(ps, i + 1, emitted, amount, cfg, smp)

\* The loop of Burst from slot i on; smp[i] is what Init draws for slot i.
RECURSIVE BurstFrom(_, _, _, _, _, _)
BurstFrom(ps, i, emitted, amount, cfg, smp) ==
    IF i > Len(ps) THEN ps
    ELSE IF ~ps[i].active
         THEN LET ps2 == [ps EXCEPT ![i] = ParticleInit(ps[i], cfg, smp[i])]
              IN IF emitted + 1 >= amount THEN ps2
                 ELSE BurstFrom(ps2, i + 1, emitted + 1, amount, cfg, smp)
         ELSE BurstFrom(ps, i + 1, emitted, amount, cfg, smp)

\* Burst as it would be if it scanned the pool from its last slot down.
EmitterBurst_Descending(e, amount, smp) ==
    LET Reverse(q) == [i \in 1..Len(q) |-> q[Len(q) + 1 - i]]
    IN [e EXCEPT !.particles =
           Reverse(BurstFrom(Reverse(e.particles), 1, 0, amount, e.config, Reverse(smp)))]

EmitterBurst(e, amount, smp) ==
    [e EXCEPT !.particles = BurstFrom(e.particles, 1, 0, amount, e.config, smp)]

\* The lambda as it would be if a spawn did not take one off the accumulator.
UpdateSlot_KeepsAccumulator(st, i, dt, cfg, isEmitting, s) ==
    LET p == st.particles[i]
    IN IF p.active
       THEN [st EXCEPT !.particles[i] = ParticleUpdate(p, dt, cfg),
                       !.counter = @ + 1]
       ELSE IF isEmitting /\ st.emitNow > 0
            THEN [st EXCEPT
                     !.particles[i] = ParticleUpdate(ParticleInit(p, cfg, s), dt, cfg),
                     !.emitNow = @ - 1,
                     !.counter = @ + 1,
                     !.inits = @ + 1]
            ELSE st

\* The lambda of Update applied to slot i.  st holds what the lambda captures
\* by reference: the pool, emitNow, mustEmit and counter; inits counts the
\* Init calls (not a variable of the source).
UpdateSlot(st, i, dt, cfg, isEmitting, s) ==
    LET p == st.particles[i]
    IN IF p.active
       THEN [st EXCEPT !.particles[i] = ParticleUpdate(p, dt, cfg),
                       !.counter = @ + 1]
       ELSE IF isEmitting /\ st.emitNow > 0
            THEN [st EXCEPT
                     !.particles[i] = ParticleUpdate(ParticleInit(p, cfg, s), dt, cfg),
                     !.emitNow = @ - 1,
                     !.mustEmit = @ - TicksPerSec,
                     !.counter = @ + 1,
                     !.inits = @ + 1]
            ELSE st

\* The traversal of the pool, run sequentially from slot i on.
RECURSIVE UpdateFrom(_, _, _, _, _, _)
UpdateFrom(st, i, dt, cfg, isEmitting, smp) ==
    IF i > Len(st.particles) THEN st
    ELSE UpdateFrom(UpdateSlot(st, i, dt, cfg, isEmitting, smp[i]),
                    i + 1, dt, cfg, isEmitting, smp)

\* Update as it would begin if it accumulated whether or not it is emitting.
UpdateEntry_AlwaysEmits(e, dt) ==
    LET acc == e.mustEmit + dt * e.config.emissionRate
    IN [particles |-> e.particles,
        emitNow |-> IF e.isEmitting THEN acc \div TicksPerSec ELSE 0,
        mustEmit |-> acc, counter |-> 0, inits |-> 0]

\* Update as it would begin if the accumulator were set, not increased.
UpdateEntry_DropsRemainder(e, dt) ==
    LET acc == IF e.isEmitting THEN dt * e.config.emissionRate ELSE e.mustEmit
    IN [particles |-> e.particles,
        emitNow |-> IF e.isEmitting THEN acc \div TicksPerSec ELSE 0,
        mustEmit |-> acc, counter |-> 0, inits |-> 0]

\* The state of Update before the traversal, lines 137-142.
UpdateEntry(e, dt) ==
    LET acc == IF e.isEmitting THEN e.mustEmit + dt * e.config.emissionRate
               ELSE e.mustEmit
    IN [particles |-> e.particles,
        emitNow |-> IF e.isEmitting THEN acc \div TicksPerSec ELSE 0,
        mustEmit |-> acc, counter |-> 0, inits |-> 0]

\* Update as it would be if it kept only the fraction of the accumulator
\* once the traversal is over.
EmitterUpdate_DropsBacklog(e, dt, smp) ==
    LET st == UpdateFrom(UpdateEntry(e, dt), 1, dt, e.config, e.isEmitting, smp)
    IN [e |-> [e EXCEPT !.mustEmit = st.mustEmit % TicksPerSec, !.particles = st.particles],
        ret |-> st.counter, inits |-> st.inits]

\* Update with a sequential traversal: the emitter after it, the value
\* returned and the number of Init calls.
EmitterUpdate(e, dt, smp) ==
    LET st == UpdateFrom(UpdateEntry(e, dt), 1, dt, e.config, e.isEmitting, smp)
    IN [e |-> [e EXCEPT !.mustEmit = st.mustEmit, !.particles = st.particles],
        ret |-> st.counter, inits |-> st.inits]

\* Emitter::SetOrigin is declared by the README and called by
\* ParticleSystem::SetOrigin; its body is not in the repository's files.
EmitterSetOrigin(e, p) == [e EXCEPT !.config.origin = p]

ActiveSlots(e) == {i \in 1..Len(e.particles) : e.particles[i].active}
ActiveCount(e) == Cardinality(ActiveSlots(e))
InactiveCount(e) == Len(e.particles) - ActiveCount(e)

\* ---------------------------------------------------------------- configurations
Rates == {10}

\* A pool of c slots fed at r particles per second; the particles rise one
\* length per tick and feel no force.
PoolConfig(c, r) ==
    [direction |-> 1,
     velocity |-> [min |-> 0, max |-> 0],
     offset |-> [min |-> 0, max |-> 0],
     originAcceleration |-> [min |-> 0, max |-> 0],
     age |-> [min |-> MaxTtl - 1, max |-> MaxTtl],
     burst |-> [min |-> 0, max |-> MaxBurst],
     capacity |-> c, emissionRate |-> r,
     origin |-> 0, externalAcceleration |-> 0,
     blendMode |-> "BLEND_ADDITIVE", model |-> "pool",
     gravity |-> 0, collision |-> FALSE]

\* The scenario of the specification: capacity 10, emissionRate 100, burst {0,0}.
ScenarioConfig ==
    [direction |-> 1,
     velocity |-> [min |-> 1, max |-> 1],
     offset |-> [min |-> 0, max |-> 0],
     originAcceleration |-> [min |-> 0, max |-> 0],
     age |-> [min |-> MaxTtl, max |-> MaxTtl],
     burst |-> [min |-> 0, max |-> 0],
     capacity |-> 10, emissionRate |-> 100,
     origin |-> 0, externalAcceleration |-> 0,
     blendMode |-> "BLEND_ALPHA", model |-> "scenario",
     gravity |-> 0, collision |-> FALSE]

\* Particles thrown down at the ground from above it, with gravity, attraction
\* to the origin and bounce.  Every length is a multiple of 8, so that the
\* halving of the velocity at a bounce is exact for the bounces a lifetime of
\* MaxTtl ticks allows.
PhysicsConfig ==
    [direction |-> -2,
     velocity |-> [min |-> 8, max |-> 8],
     offset |-> [min |-> 0, max |-> 0],
     originAcceleration |-> [min |-> 8, max |-> 8],
     age |-> [min |-> MaxTtl, max |-> MaxTtl],
     burst |-> [min |-> 1, max |-> 1],
     capacity |-> 1, emissionRate |-> 20,
     origin |-> 8, externalAcceleration |-> 0,
     blendMode |-> "BLEND_ADDITIVE", model |-> "ember",
     gravity |-> 8, collision |-> TRUE]

\* Two slots whose particles start one offset above the origin and rise
\* steadily, feeling no force.
DriftConfig ==
    [direction |-> 1,
     velocity |-> [min |-> 8, max |-> 8],
     offset |-> [min |-> 8, max |-> 8],
     originAcceleration |-> [min |-> 0, max |-> 0],
     age |-> [min |-> MaxTtl, max |-> MaxTtl],
     burst |-> [min |-> 1, max |-> 2],
     capacity |-> 2, emissionRate |-> 20,
     origin |-> 0, externalAcceleration |-> 0,
     blendMode |-> "BLEND_ALPHA", model |-> "smoke",
     gravity |-> 0, collision |-> FALSE]

Configs == {PoolConfig(c, r) : c \in 0..MaxCapacity, r \in Rates} \cup {ScenarioConfig}

\* ---------------------------------------------------------------- state
VARIABLES
    emitters,    \* the emitters, in the order ParticleSystem::emitters holds them
    last,        \* the last call made and what it was given and returned
    registered,  \* the models of the emitters in the order Register was called
    gfx,         \* the calls the last Draw made to the render backend
    sys,         \* ParticleSystem::Update in progress: its counter and workers
    dormant      \* TRUE as long as neither Start nor Burst has been called

vars == <<emitters, last, registered, gfx, sys, dormant>>

NoCall ==
    [op |-> "none", dt |-> 0, amount |-> 0, origin |-> 0, ret |-> 0, inits |-> 0,
     returned |-> <<>>]

SysIdle == [pc |-> "idle", dt |-> 0, counter |-> 0, workers |-> <<>>]

\* What a call leaves in last: its arguments, the value it drew or returned
\* and the number of Init calls it made; returned is, for a
\* ParticleSystem::Update, what each emitter's Update returned.
Call(op, dt, amount, origin, ret, inits) ==
    [op |-> op, dt |-> dt, amount |-> amount, origin |-> origin, ret |-> ret,
     inits |-> inits, returned |-> <<>>]

\* What Init draws for each slot of a call that can initialize at most k
\* slots: only the first k slots that are inactive when the call begins can
\* be initialized by it, and the others draw nothing.
RECURSIVE SampleChoicesTo(_, _, _)
SampleChoicesTo(e, n, k) ==
    IF n = 0 THEN {<<>>}
    ELSE LET before == Cardinality({i \in 1..(n - 1) : ~e.particles[i].active})
             drawn == IF ~e.particles[n].active /\ before < k
                      THEN SampleSet(e.config)
                      ELSE {CHOOSE x \in SampleSet(e.config) : TRUE}
         IN {Append(c, s) : c \in SampleChoicesTo(e, n - 1, k), s \in drawn}

SampleChoices(e, k) == SampleChoicesTo(e, Len(e.particles), k)

\* ---------------------------------------------------------------- one emitter
\* A caller drives one Emitter directly.
Init ==
    /\ \E cfg \in Configs : emitters = <<NewEmitter(cfg)>>
    /\ last = NoCall
    /\ registered = <<>>
    /\ gfx = <<>>
    /\ sys = SysIdle
    /\ dormant = TRUE

Start ==
    /\ emitters' = [emitters EXCEPT ![1] = EmitterStart(@)]
    /\ last' = Call("Start", 0, 0, 0, 0, 0)
    /\ dormant' = FALSE
    /\ UNCHANGED <<registered, gfx, sys>>

Stop ==
    /\ emitters' = [emitters EXCEPT ![1] = EmitterStop(@)]
    /\ last' = Call("Stop", 0, 0, 0, 0, 0)
    /\ UNCHANGED <<registered, gfx, sys, dormant>>

\* A caller whose burst range is {0,0} asks for no burst.  The loop of Burst
\* returns after the Init that brings emitted to amount, so it calls Init on
\* amount slots, or on one when amount is 0.
Burst ==
    /\ emitters[1].config.burst.max > 0
    /\ \E amount \in RandomValue(emitters[1].config.burst) :
       \E smp \in SampleChoices(emitters[1], IF amount = 0 THEN 1 ELSE amount) :
          /\ emitters' = [emitters EXCEPT ![1] = EmitterBurst(@, amount, smp)]
          /\ last' = Call("Burst", 0, amount, 0, 0,
                          ActiveCount(emitters'[1]) - ActiveCount(emitters[1]))
          /\ dormant' = FALSE
          /\ UNCHANGED <<registered, gfx, sys>>

\* The caller stops calling Update once the spawn budget would pass the pool
\* by more than MaxBacklog.
UpdateAllowed(e, dt) ==
    UpdateEntry(e, dt).emitNow <= Len(e.particles) + MaxBacklog

Update ==
    \E dt \in DtSet :
    \E smp \in SampleChoices(emitters[1], UpdateEntry(emitters[1], dt).emitNow) :
        /\ UpdateAllowed(emitters[1], dt)
        /\ LET r == EmitterUpdate(emitters[1], dt, smp)
           IN /\ emitters' = [emitters EXCEPT ![1] = r.e]
              /\ last' = [Call("Update", dt, 0, 0, r.ret, r.inits)
                            EXCEPT !.returned = <<r.ret>>]
        /\ UNCHANGED <<registered, gfx, sys, dormant>>

SetOrigin ==
    \E p \in Origins :
        /\ emitters' = [emitters EXCEPT ![1] = EmitterSetOrigin(@, p)]
        /\ last' = Call("SetOrigin", 0, 0, p, 0, 0)
        /\ UNCHANGED <<registered, gfx, sys, dormant>>

Next == Start \/ Stop \/ Burst \/ Update

Spec == Init /\ [][Next]_vars

\* ---------------------------------------------------------------- one emitter, moving
\* A caller drives one Emitter whose particles move, and moves its origin.
InitPhysics ==
    /\ \E cfg \in {PhysicsConfig, DriftConfig} : emitters = <<NewEmitter(cfg)>>
    /\ last = NoCall
    /\ registered = <<>>
    /\ gfx = <<>>
    /\ sys = SysIdle
    /\ dormant = TRUE

\* ---------------------------------------------------------------- ParticleSystem
\* One slot, a burst of one, one lifetime: three layers as in the demo, told
\* apart by their model and their emission rate.
SysConfig(model, blendMode, emissionRate) ==
    [direction |-> 1,
     velocity |-> [min |-> 0, max |-> 0],
     offset |-> [min |-> 0, max |-> 0],
     originAcceleration |-> [min |-> 0, max |-> 0],
     age |-> [min |-> 1, max |-> 1],
     burst |-> [min |-> 1, max |-> 1],
     capacity |-> 1, emissionRate |-> emissionRate,
     origin |-> 0, externalAcceleration |-> 0,
     blendMode |-> blendMode, model |-> model,
     gravity |-> 0, collision |-> FALSE]

SysConfigs ==
    {SysConfig("fire", "BLEND_ADDITIVE", 20), SysConfig("smoke", "BLEND_ALPHA", 0),
     SysConfig("ember", "BLEND_ADDITIVE", 20)}

RegisterEmitter_Front(ems, e) == <<e>> \o ems

\* ParticleSystem::Register: push_back.
RegisterEmitter(ems, e) == Append(ems, e)

\* Every outcome of calling Burst on the emitters from the k-th on, in order.
RECURSIVE BurstAllFrom(_, _)
BurstAllFrom(ems, k) ==
    IF k > Len(ems) THEN {ems}
    ELSE UNION {BurstAllFrom([ems EXCEPT ![k] = EmitterBurst(ems[k], amount, smp)], k + 1) :
                  <<amount, smp>> \in
                      {<<a, c>> \in RandomValue(ems[k].config.burst)
                                      \X SampleChoices(ems[k], ems[k].config.burst.max + 1) : TRUE}}

\* Emitter::Draw: the calls it makes to the render backend, in order.  Each
\* call is tagged with the model of the emitter that makes it.
RECURSIVE DrawParticlesFrom(_, _)
DrawParticlesFrom(e, i) ==
    IF i > Len(e.particles) THEN <<>>
    ELSE (IF e.particles[i].active
          THEN <<[call |-> "DrawModel", emitter |-> e.config.model,
                  arg |-> <<e.particles[i].position, e.particles[i].scale>>]>>
          ELSE <<>>) \o DrawParticlesFrom(e, i + 1)

EmitterDraw_NoEnd(e) ==
    <<[call |-> "BeginBlendMode", emitter |-> e.config.model, arg |-> e.config.blendMode]>>
        \o DrawParticlesFrom(e, 1)

EmitterDraw(e) ==
    <<[call |-> "BeginBlendMode", emitter |-> e.config.model, arg |-> e.config.blendMode]>>
        \o DrawParticlesFrom(e, 1)
        \o <<[call |-> "EndBlendMode", emitter |-> e.config.model, arg |-> "none"]>>

\* ParticleSystem::Draw from the k-th emitter on.
RECURSIVE SystemDrawFrom(_, _)
SystemDrawFrom(ems, k) ==
    IF k > Len(ems) THEN <<>>
    ELSE EmitterDraw(ems[k]) \o SystemDrawFrom(ems, k + 1)

RECURSIVE SeqSum(_)
SeqSum(q) == IF q = <<>> THEN 0 ELSE Head(q) + SeqSum(Tail(q))

InitSys ==
    /\ emitters = <<>>
    /\ last = NoCall
    /\ registered = <<>>
    /\ gfx = <<>>
    /\ sys = SysIdle
    /\ dormant = TRUE

\* The emitters are registered before the system is used, as in the demo.
Register ==
    \E cfg \in SysConfigs :
        /\ sys.pc = "idle"
        /\ last.op \in {"none", "Register"}
        /\ Len(emitters) < MaxEmitters
        /\ \A k \in 1..Len(registered) : registered[k] # cfg.model
        /\ emitters' = RegisterEmitter(emitters, NewEmitter(cfg))
        /\ registered' = Append(registered, cfg.model)
        /\ last' = Call("Register", 0, 0, 0, 0, 0)
        /\ gfx' = <<>>
        /\ UNCHANGED <<sys, dormant>>

SysStart ==
    /\ sys.pc = "idle"
    /\ emitters' = [k \in 1..Len(emitters) |-> EmitterStart(emitters[k])]
    /\ last' = Call("Start", 0, 0, 0, 0, 0)
    /\ gfx' = <<>>
    /\ dormant' = FALSE
    /\ UNCHANGED <<registered, sys>>

SysStop ==
    /\ sys.pc = "idle"
    /\ emitters' = [k \in 1..Len(emitters) |-> EmitterStop(emitters[k])]
    /\ last' = Call("Stop", 0, 0, 0, 0, 0)
    /\ gfx' = <<>>
    /\ UNCHANGED <<registered, sys, dormant>>

SysBurst ==
    /\ sys.pc = "idle"
    /\ emitters' \in BurstAllFrom(emitters, 1)
    /\ last' = Call("Burst", 0, 0, 0, 0, 0)
    /\ gfx' = <<>>
    /\ dormant' = FALSE
    /\ UNCHANGED <<registered, sys>>

SysSetOrigin ==
    \E p \in Origins :
        /\ sys.pc = "idle"
        /\ emitters' = [k \in 1..Len(emitters) |-> EmitterSetOrigin(emitters[k], p)]
        /\ last' = Call("SetOrigin", 0, 0, p, 0, 0)
        /\ gfx' = <<>>
        /\ UNCHANGED <<registered, sys, dormant>>

\* ParticleSystem::Update, lines 221-229.  for_each(par_unseq) runs the lambda
\* once per emitter, the runs interleaved in any way; counter is shared and
\* not atomic, so counter += e->Update(dt) is a load and a later store.
SysUpdateBegin ==
    \E dt \in DtSet :
        /\ sys.pc = "idle"
        /\ \A k \in 1..Len(emitters) : UpdateAllowed(emitters[k], dt)
        /\ sys' = [pc |-> "running", dt |-> dt, counter |-> 0,
                   workers |-> [k \in 1..Len(emitters) |->
                                   [pc |-> "start", r |-> 0, tmp |-> 0, inits |-> 0]]]
        /\ last' = Call("Update", dt, 0, 0, 0, 0)
        /\ gfx' = <<>>
        /\ UNCHANGED <<emitters, registered, dormant>>

\* The lambda on emitter k calls e->Update(dt) and loads counter.
SysUpdateLoad ==
    \E k \in 1..Len(emitters) :
    \E smp \in SampleChoices(emitters[k], UpdateEntry(emitters[k], sys.dt).emitNow) :
        /\ sys.pc = "running"
        /\ sys.workers[k].pc = "start"
        /\ LET r == EmitterUpdate(emitters[k], sys.dt, smp)
           IN /\ emitters' = [emitters EXCEPT ![k] = r.e]
              /\ sys' = [sys EXCEPT !.workers[k] =
                            [pc |-> "loaded", r |-> r.ret, tmp |-> sys.counter,
                             inits |-> r.inits]]
        /\ UNCHANGED <<last, registered, gfx, dormant>>

\* The lambda on emitter k stores counter; the value it had loaded is dead.
SysUpdateStore ==
    \E k \in 1..Len(emitters) :
        /\ sys.pc = "running"
        /\ sys.workers[k].pc = "loaded"
        /\ sys' = [sys EXCEPT !.counter = sys.workers[k].tmp + sys.workers[k].r,
                              !.workers[k].pc = "done",
                              !.workers[k].tmp = 0]
        /\ UNCHANGED <<emitters, last, registered, gfx, dormant>>

\* Every lambda has run: Update returns counter.
SysUpdateReturn ==
    /\ sys.pc = "running"
    /\ \A k \in 1..Len(emitters) : sys.workers[k].pc = "done"
    /\ last' = [Call("Update", sys.dt, 0, 0, sys.counter,
                     SeqSum([k \in 1..Len(emitters) |-> sys.workers[k].inits]))
                  EXCEPT !.returned = [k \in 1..Len(emitters) |-> sys.workers[k].r]]
    /\ sys' = SysIdle
    /\ UNCHANGED <<emitters, registered, gfx, dormant>>

SysDraw ==
    /\ sys.pc = "idle"
    /\ Len(emitters) >= 1
    /\ gfx' = SystemDrawFrom(emitters, 1)
    /\ last' = Call("Draw", 0, 0, 0, 0, 0)
    /\ UNCHANGED <<emitters, registered, sys, dormant>>

NextSys ==
    \/ Register \/ SysStart \/ SysStop \/ SysBurst
    \/ SysUpdateBegin \/ SysUpdateLoad \/ SysUpdateStore \/ SysUpdateReturn
    \/ SysDraw

SpecSys == InitSys /\ [][NextSys]_vars

\* The emitter of SpecPhysics is driven directly, and its origin is moved
\* directly or through the ParticleSystem that holds it.
NextPhysics == Start \/ Stop \/ Burst \/ Update \/ SetOrigin \/ SysSetOrigin

SpecPhysics == InitPhysics /\ [][NextPhysics]_vars

\* ---------------------------------------------------------------- one emitter, parallel
\* Emitter::Update with the traversal std::for_each(par_unseq) allows: the
\* lambda runs once per slot, the runs interleaved in any way.  counter,
\* emitNow and mustEmit are captured by reference and are not atomic, so each
\* of ++counter, --emitNow and --mustEmit is a load and a later store.
\*
\* A size_t at or above 2^63 is written as the negative integer it is in
\* two's complement (2^64 - 1 is -1): --emitNow on 0 gives -1, and the
\* unsigned test emitNow > 0 is emitNow # 0.

\* Two slots fed at one particle per tick.
RaceConfig ==
    [direction |-> 1,
     velocity |-> [min |-> 0, max |-> 0],
     offset |-> [min |-> 0, max |-> 0],
     originAcceleration |-> [min |-> 0, max |-> 0],
     age |-> [min |-> 1, max |-> 1],
     burst |-> [min |-> 1, max |-> 1],
     capacity |-> 2, emissionRate |-> 20,
     origin |-> 0, externalAcceleration |-> 0,
     blendMode |-> "BLEND_ADDITIVE", model |-> "fire",
     gravity |-> 0, collision |-> FALSE]

InitRace ==
    /\ emitters = <<NewEmitter(RaceConfig)>>
    /\ last = NoCall
    /\ registered = <<>>
    /\ gfx = <<>>
    /\ sys = SysIdle
    /\ dormant = TRUE

\* static_cast<size_t>(mustEmit), line 141: truncation for a value above -1;
\* undefined for a value at or below -1, where the builds give 0 or the
\* truncated value wrapped into size_t.
CastToSize(acc) ==
    IF acc >= 0 THEN {acc \div TicksPerSec}
    ELSE IF acc > -TicksPerSec THEN {0}
    ELSE {0, -((-acc) \div TicksPerSec)}

RaceStart == sys.pc = "idle" /\ Start
RaceStop == sys.pc = "idle" /\ Stop
RaceBurst == sys.pc = "idle" /\ Burst

\* Lines 137-142, then the traversal begins: one worker per slot.
RaceUpdateBegin ==
    \E dt \in DtSet :
        LET e == emitters[1]
            acc == IF e.isEmitting THEN e.mustEmit + dt * e.config.emissionRate
                   ELSE e.mustEmit
        IN /\ sys.pc = "idle"
           /\ UpdateAllowed(e, dt)
           /\ \E emitNow \in (IF e.isEmitting THEN CastToSize(acc) ELSE {0}) :
                 sys' = [pc |-> "running", dt |-> dt, counter |-> 0,
                         emitNow |-> emitNow, budget |-> emitNow,
                         active0 |-> ActiveCount(e), inits |-> 0,
                         workers |-> [i \in 1..Len(e.particles) |->
                                         [pc |-> "test", todo |-> <<>>, tmp |-> 0]]]
           /\ emitters' = [emitters EXCEPT ![1].mustEmit = acc]
           /\ last' = Call("Update", dt, 0, 0, 0, 0)
           /\ UNCHANGED <<registered, gfx, dormant>>

\* The lambda on slot i, lines 145-150: the tests, and Init and Update of the
\* particle, which is the worker's own.  What is left to do is on shared
\* variables.
RaceTest ==
    \E i \in 1..Len(emitters[1].particles) :
    \E s \in SampleSet(emitters[1].config) :
        LET e == emitters[1]
            p == e.particles[i]
        IN /\ sys.pc = "running"
           /\ sys.workers[i].pc = "test"
           /\ IF p.active
              THEN /\ emitters' = [emitters EXCEPT
                                      ![1].particles[i] = ParticleUpdate(p, sys.dt, e.config)]
                   /\ sys' = [sys EXCEPT !.workers[i] =
                                 [pc |-> "load", todo |-> <<"counter">>, tmp |-> 0]]
              ELSE IF e.isEmitting /\ sys.emitNow # 0
                   THEN /\ emitters' = [emitters EXCEPT ![1].particles[i] =
                                           ParticleUpdate(ParticleInit(p, e.config, s),
                                                          sys.dt, e.config)]
                        /\ sys' = [sys EXCEPT
                                      !.inits = @ + 1,
                                      !.workers[i] =
                                          [pc |-> "load",
                                           todo |-> <<"emitNow", "mustEmit", "counter">>,
                                           tmp |-> 0]]
                   ELSE /\ sys' = [sys EXCEPT !.workers[i].pc = "done"]
                        /\ UNCHANGED emitters
           /\ UNCHANGED <<last, registered, gfx, dormant>>

\* Worker i loads the shared variable its next statement changes.
RaceLoad ==
    \E i \in 1..Len(emitters[1].particles) :
        LET w == sys.workers[i]
        IN /\ sys.pc = "running"
           /\ w.pc = "load"
           /\ sys' = [sys EXCEPT !.workers[i] =
                         [w EXCEPT !.pc = "store",
                                   !.tmp = CASE Head(w.todo) = "counter" -> sys.counter
                                             [] Head(w.todo) = "emitNow" -> sys.emitNow
                                             [] OTHER -> emitters[1].mustEmit]]
           /\ UNCHANGED <<emitters, last, registered, gfx, dormant>>

\* Worker i stores what it loaded, changed by one: ++counter, --emitNow,
\* --mustEmit.
RaceStore ==
    \E i \in 1..Len(emitters[1].particles) :
        LET w == sys.workers[i]
            v == Head(w.todo)
            w2 == [pc |-> IF Len(w.todo) > 1 THEN "load" ELSE "done",
                   todo |-> Tail(w.todo), tmp |-> 0]
        IN /\ sys.pc = "running"
           /\ w.pc = "store"
           /\ sys' = [sys EXCEPT !.workers[i] = w2,
                                 !.counter = IF v = "counter" THEN w.tmp + 1 ELSE @,
                                 !.emitNow = IF v = "emitNow" THEN w.tmp - 1 ELSE @]
           /\ emitters' = IF v = "mustEmit"
                          THEN [emitters EXCEPT ![1].mustEmit = w.tmp - TicksPerSec]
                          ELSE emitters
           /\ UNCHANGED <<last, registered, gfx, dormant>>

\* Every worker is done: Update returns counter.
RaceUpdateReturn ==
    /\ sys.pc = "running"
    /\ \A i \in 1..Len(emitters[1].particles) : sys.workers[i].pc = "done"
    /\ last' = [Call("Update", sys.dt, 0, 0, sys.counter, sys.inits)
                  EXCEPT !.returned = <<sys.counter>>]
    /\ sys' = SysIdle
    /\ UNCHANGED <<emitters, registered, gfx, dormant>>

NextRace ==
    \/ RaceStart \/ RaceStop \/ RaceBurst
    \/ RaceUpdateBegin \/ RaceTest \/ RaceLoad \/ RaceStore \/ RaceUpdateReturn

SpecRace == InitRace /\ [][NextRace]_vars

\* ---------------------------------------------------------------- claims, one emitter
\* The emitter of Spec, before and after a step.
E == emitters[1]
E2 == emitters'[1]
Slots == 1..Len(E.particles)

\* C1: the pool has exactly capacity slots in every reachable state, so at
\* most capacity particles are active, and Update returns at most capacity.
C1_PoolFixedAndBounded ==
    \A k \in 1..Len(emitters) :
        LET e == emitters[k]
        IN /\ Len(e.particles) = e.config.capacity
           /\ ActiveCount(e) <= e.config.capacity
           /\ last.op = "Update" => last.ret <= e.config.capacity

\* An Update has returned capacity on a full pool of the largest general size.
C1_Witness ==
    /\ last.op = "Update"
    /\ E.config.capacity = MaxCapacity
    /\ ActiveCount(E) = MaxCapacity
    /\ last.ret = MaxCapacity

\* C2: a Burst step activates exactly min(sampledAmount, inactiveCount)
\* particles, none when sampledAmount is 0.
C2_BurstActivatesMin ==
    [][last'.op = "Burst" =>
          ActiveCount(E2) = ActiveCount(E) + Min(last'.amount, InactiveCount(E))]_vars

\* C3: an Update step on an emitting emitter adds dt*emissionRate to the
\* accumulator, initializes min(floor(mustEmit), slots inactive at entry)
\* particles and takes that many off mustEmit; capacity 10, emissionRate 100,
\* an empty pool and Update(0.1) initialize 10.
C3_UpdateSpawnsBudget ==
    [][(last'.op = "Update" /\ E.isEmitting) =>
          LET acc == E.mustEmit + last'.dt * E.config.emissionRate
              n == Min(acc \div TicksPerSec, InactiveCount(E))
              born == {i \in Slots : ~E.particles[i].active /\ E2.particles[i].active}
          IN /\ last'.inits = n
             /\ E2.mustEmit = acc - n * TicksPerSec
             /\ Cardinality(born) <= n
             /\ E.config.age.min >= last'.dt => Cardinality(born) = n
             /\ \A i \in born : E2.particles[i].age = last'.dt
             /\ (/\ E.config.capacity = 10
                 /\ E.config.emissionRate = 100
                 /\ ActiveCount(E) = 0
                 /\ E.mustEmit = 0
                 /\ 10 * last'.dt = TicksPerSec) => last'.inits = 10]_vars

\* Update(0.1) has filled the empty pool of the scenario: 10 particles
\* initialized by one call, all active, nothing left in the accumulator.
C3_Witness ==
    /\ last.op = "Update"
    /\ 10 * last.dt = TicksPerSec
    /\ E.config.capacity = 10
    /\ E.config.emissionRate = 100
    /\ last.inits = 10
    /\ last.ret = 10
    /\ ActiveCount(E) = 10
    /\ E.mustEmit = 0

\* C4: as long as neither Start nor Burst has been called, no particle is
\* active, every Update returns 0 and mustEmit stays 0.
C4_DormantStaysEmpty ==
    dormant =>
        /\ ~E.isEmitting
        /\ ActiveCount(E) = 0
        /\ E.mustEmit = 0
        /\ last.op = "Update" => (last.ret = 0 /\ last.inits = 0)

\* The longest Update has run on a dormant emitter that has slots.
C4_Witness ==
    /\ dormant
    /\ last.op = "Update"
    /\ last.dt = MaxDt
    /\ E.config.capacity >= 1
    /\ E.config.emissionRate > 0

\* The frame times that can be halved.
EvenDts == {dt \in DtSet : dt % 2 = 0}

\* From emitter e, Update(dt) and Update(dt/2), Update(dt/2) initialize the
\* same number of particles and leave the same mustEmit, whatever Init draws.
SplitLawAt(e, dt) ==
    LET h == dt \div 2
    IN \A s0 \in SampleChoices(e, UpdateEntry(e, dt).emitNow) :
       \A s1 \in SampleChoices(e, UpdateEntry(e, h).emitNow) :
          LET one == EmitterUpdate(e, dt, s0)
              h1 == EmitterUpdate(e, h, s1)
          IN \A s2 \in SampleChoices(h1.e, UpdateEntry(h1.e, h).emitNow) :
                LET h2 == EmitterUpdate(h1.e, h, s2)
                IN /\ one.inits = h1.inits + h2.inits
                   /\ one.e.mustEmit = h2.e.mustEmit

\* C5 as claimed: the split law from every state of an emitting emitter.
C5_SplitLaw ==
    E.isEmitting => \A dt \in EvenDts : SplitLawAt(E, dt)

\* C5 as amended: the split law from every state of an emitting emitter whose
\* pool has at least floor(mustEmit + dt*emissionRate) inactive slots.
C5_SplitLawUnsaturated ==
    E.isEmitting =>
        \A dt \in EvenDts :
            UpdateEntry(E, dt).emitNow <= InactiveCount(E) => SplitLawAt(E, dt)

\* An emitting emitter with a fraction of a particle pending and room in the
\* pool for the whole-dt budget, which the pending fraction lets the first
\* half already reach.
C5_Witness ==
    /\ E.isEmitting
    /\ last.op = "Update"
    /\ E.mustEmit % TicksPerSec # 0
    /\ \E dt \in EvenDts :
          /\ UpdateEntry(E, dt).emitNow >= 1
          /\ UpdateEntry(E, dt).emitNow <= InactiveCount(E)
          /\ UpdateEntry(E, dt \div 2).emitNow >= 1
          /\ UpdateEntry([E EXCEPT !.mustEmit = 0], dt \div 2).emitNow = 0

\* C6: a slot becomes active only in a step that calls Init (Burst, or Update
\* while emitting); it becomes inactive only in an Update step that takes its
\* age strictly past its ttl; an active particle whose age stays at or below
\* ttl, equality included, stays active; Update leaves an inactive particle
\* as it is.
C6_Lifecycle ==
    [][\A i \in Slots :
          LET p == E.particles[i]
              q == E2.particles[i]
          IN /\ (~p.active /\ q.active) =>
                    \/ last'.op = "Burst" /\ q.age = 0
                    \/ last'.op = "Update" /\ E.isEmitting /\ q.age = last'.dt
             /\ (p.active /\ ~q.active) =>
                    /\ last'.op = "Update"
                    /\ q.ttl = p.ttl
                    /\ q.age = p.age + last'.dt
                    /\ q.age > q.ttl
             /\ (p.active /\ last'.op = "Update" /\ p.age + last'.dt <= p.ttl) =>
                    (q.active /\ q.age = p.age + last'.dt /\ q.ttl = p.ttl)
             /\ (~p.active /\ last'.op = "Update" /\ ~E.isEmitting) => q = p
             /\ ~p.active => \A dt \in DtSet : ParticleUpdate(p, dt, E.config) = p]_vars

\* An Update has brought an active particle's age to exactly its ttl.
C6_Witness ==
    /\ last.op = "Update"
    /\ \E i \in Slots :
          /\ E.particles[i].active
          /\ E.particles[i].age = E.particles[i].ttl
          /\ E.particles[i].age >= last.dt

\* C9: a Start or Stop step changes isEmitting and nothing else; an Update on
\* a stopped emitter advances and expires its active particles and leaves
\* mustEmit alone, so what the accumulator held at Stop is what the first
\* emitting Update after the next Start adds to.
C9_StartStopFrame ==
    [][/\ last'.op \in {"Start", "Stop"} =>
             /\ E2.particles = E.particles
             /\ E2.mustEmit = E.mustEmit
             /\ E2.config = E.config
             /\ E2.isEmitting = (last'.op = "Start")
       /\ (last'.op = "Update" /\ ~E.isEmitting) =>
             /\ E2.mustEmit = E.mustEmit
             /\ \A i \in Slots :
                   E.particles[i].active =>
                       /\ E2.particles[i].age = E.particles[i].age + last'.dt
                       /\ E2.particles[i].active = (E2.particles[i].age <= E.particles[i].ttl)
       /\ (last'.op = "Update" /\ E.isEmitting) =>
             E2.mustEmit + last'.inits * TicksPerSec
                 = E.mustEmit + last'.dt * E.config.emissionRate]_vars

\* Stop has been called on an emitter with an active particle and part of a
\* particle in the accumulator.
C9_Witness ==
    /\ last.op = "Stop"
    /\ ~E.isEmitting
    /\ ActiveCount(E) >= 1
    /\ E.mustEmit > 0

\* ---------------------------------------------------------------- claims, moving origin
\* A particle just initialized by an emitter whose live origin is o, drawing s.
BornAt(o, cfg, s) ==
    [origin |-> o,
     position |-> o + cfg.direction * s.offset,
     velocity |-> cfg.direction * s.velocity,
     originAcceleration |-> s.originAcceleration,
     externalAcceleration |-> cfg.externalAcceleration,
     age |-> 0, ttl |-> s.ttl, scale |-> <<1, 1>>, active |-> TRUE]

EmittersOf(trace, call) ==
    LET sel == SelectSeq(trace, LAMBDA ev : ev.call = call)
    IN [n \in 1..Len(sel) |-> sel[n].emitter]

\* How many blend scopes are open after the first n calls of a render trace.
OpenScopes(trace, n) ==
    Cardinality({m \in 1..n : trace[m].call = "BeginBlendMode"})
        - Cardinality({m \in 1..n : trace[m].call = "EndBlendMode"})

\* C7: the render calls of a ParticleSystem::Draw are those of one
\* Emitter::Draw per registered emitter, in registration order: one
\* BeginBlendMode(config.blendMode) and one EndBlendMode per emitter, in that
\* order; never more than one blend scope open, none left open; and every
\* DrawModel directly inside the scope its own emitter opened, one per active
\* particle with that particle's position and scale.
C7_DrawInRegistrationOrder ==
    last.op = "Draw" =>
        /\ EmittersOf(gfx, "BeginBlendMode") = registered
        /\ EmittersOf(gfx, "EndBlendMode") = registered
        /\ \A n \in 0..Len(gfx) : OpenScopes(gfx, n) \in {0, 1}
        /\ OpenScopes(gfx, Len(gfx)) = 0
        /\ \A k \in 1..Len(emitters) :
              LET e == emitters[k]
                  mine == {n \in 1..Len(gfx) : /\ gfx[n].call = "DrawModel"
                                               /\ gfx[n].emitter = registered[k]}
              IN /\ e.config.model = registered[k]
                 /\ \E b \in 1..Len(gfx) :
                       /\ gfx[b] = [call |-> "BeginBlendMode", emitter |-> registered[k],
                                    arg |-> e.config.blendMode]
                       /\ mine = b + 1 .. b + ActiveCount(e)
                       /\ gfx[b + ActiveCount(e) + 1].call = "EndBlendMode"
                       /\ gfx[b + ActiveCount(e) + 1].emitter = registered[k]
                 /\ \A i \in ActiveSlots(e) :
                       \E n \in mine :
                          gfx[n].arg = <<e.particles[i].position, e.particles[i].scale>>

\* Three emitters, registered in another order than the configurations are
\* listed, have been drawn while the first and the last registered had an
\* active particle and the one between them had none.
C7_Witness ==
    /\ last.op = "Draw"
    /\ registered = <<"ember", "smoke", "fire">>
    /\ ActiveCount(emitters[1]) = 1
    /\ ActiveCount(emitters[2]) = 0
    /\ ActiveCount(emitters[3]) = 1
    /\ Len(gfx) = 8

\* C10: when ParticleSystem::Update has returned, the value it returned is
\* the sum of the values the emitters' Update calls returned.
C10_SystemUpdateReturnsSum ==
    (last.op = "Update" /\ sys.pc = "idle") => last.ret = SeqSum(last.returned)

\* ---------------------------------------------------------------- claims, physics
\* The velocity Particle::Update integrates with on particle p (line 82) and
\* the position that integration gives, before the collision test.
Integrated(p, dt, cfg) ==
    LET v == p.velocity - cfg.gravity * dt
                 + Vector3Normalize(p.origin - p.position) * (p.originAcceleration * dt)
                 + p.externalAcceleration * dt
    IN [velocity |-> v, position |-> p.position + v * dt]

\* C11: with collision enabled, an Update step that integrates a particle to
\* a height <= 0 leaves it at height exactly 0 with velocity -0.5 times the
\* velocity it integrated with (twice the new velocity is minus the
\* integrated one); so every particle active after an Update has height >= 0.
\* This holds of the particles active before the step and of those the step
\* spawns.
C11_CollisionClampsAndDamps ==
    [][(last'.op = "Update" /\ E.config.collision) =>
          \A i \in Slots :
             LET p == E.particles[i]
                 q == E2.particles[i]
                 starts == IF p.active THEN {p}
                           ELSE {ParticleInit(p, E.config, s) : s \in SampleSet(E.config)}
             IN q.active =>
                   /\ q.position >= 0
                   /\ \E b \in starts :
                         LET g == Integrated([b EXCEPT !.age = @ + last'.dt],
                                             last'.dt, E.config)
                         IN /\ g.position <= 0 =>
                                  (q.position = 0 /\ 2 * q.velocity = -g.velocity)
                            /\ g.position > 0 =>
                                  (q.position = g.position /\ q.velocity = g.velocity)]_vars

\* An Update has brought a falling particle to the ground: it lies at height
\* 0 and rises with half the speed it came down with.
C11_Witness ==
    /\ last.op = "Update"
    /\ E.config.collision
    /\ E.config.gravity > 0
    /\ \E i \in Slots :
          /\ E.particles[i].active
          /\ E.particles[i].position = 0
          /\ E.particles[i].velocity > 0

\* ---------------------------------------------------------------- claims, degenerate pool
\* C12: an emitter of capacity 0 has no slot, so no particle is ever active:
\* whatever was called, a Burst has initialized nothing, an Update has
\* initialized nothing and returned 0, and Start, Stop, Burst and Update can
\* each be called again (none is stuck or undefined on the empty pool).
C12_ZeroCapacityInert ==
    E.config.capacity = 0 =>
        /\ Len(E.particles) = 0
        /\ ActiveCount(E) = 0
        /\ last.op \in {"Burst", "Update"} => (last.inits = 0 /\ last.ret = 0)
        /\ E.mustEmit >= 0
        /\ ENABLED Start
        /\ ENABLED Stop
        /\ ENABLED Burst
        /\ (\E dt \in DtSet : UpdateAllowed(E, dt)) => ENABLED Update

\* An emitting emitter of capacity 0 has been updated with a spawn budget of
\* at least one particle: nothing was initialized, 0 was returned.
C12_Witness ==
    /\ E.config.capacity = 0
    /\ E.isEmitting
    /\ last.op = "Update"
    /\ E.mustEmit >= TicksPerSec
    /\ last.ret = 0

\* ---------------------------------------------------------------- claims, parallel traversal
\* C13: when the parallel traversal of Emitter::Update is over, the counter
\* it returns is the number of slots that were active at entry plus the
\* number of slots initialized during the call.
C13_RaceFreeCount ==
    [][(sys.pc = "running" /\ sys'.pc = "idle") =>
          sys.counter = sys.active0 + sys.inits]_vars

\* C14: throughout the parallel traversal of Emitter::Update the number of
\* particles initialized stays within the budget floor(mustEmit) computed at
\* entry and emitNow does not wrap below 0; mustEmit is never negative.
C14_BudgetRespected ==
    /\ sys.pc = "running" => (sys.inits <= sys.budget /\ sys.emitNow >= 0)
    /\ emitters[1].mustEmit >= 0

\* ---------------------------------------------------------------- claims, Burst and Update frames
\* C15: a Burst step initializes inactive slots only, and those it
\* initializes are the lowest-indexed inactive ones: no inactive slot is left
\* below an initialized one.  Every slot that was active keeps all its
\* fields, every slot not initialized is untouched, the new particles have
\* age 0, and isEmitting, mustEmit and the configuration are unchanged.
\* The pool the step leaves is one that Burst, drawing the same amount, leaves
\* from the emitter with isEmitting negated and another accumulator.
C15_BurstFillsLowestInactive ==
    [][last'.op = "Burst" =>
          LET born == {i \in Slots : E2.particles[i] # E.particles[i]}
              other == [E EXCEPT !.isEmitting = ~@, !.mustEmit = TicksPerSec - @]
          IN /\ \A i \in born :
                   /\ ~E.particles[i].active
                   /\ E2.particles[i].active
                   /\ E2.particles[i].age = 0
                   /\ \A j \in 1..(i - 1) : ~E.particles[j].active => j \in born
             /\ E2.isEmitting = E.isEmitting
             /\ E2.mustEmit = E.mustEmit
             /\ E2.config = E.config
             /\ \E smp \in SampleChoices(E, IF last'.amount = 0 THEN 1 ELSE last'.amount) :
                   EmitterBurst(other, last'.amount, smp).particles = E2.particles]_vars

\* A Burst of one on a started emitter with a fraction in its accumulator has
\* taken the first of two inactive slots and left the second.
C15_Witness ==
    /\ last.op = "Burst"
    /\ last.amount = 1
    /\ E.isEmitting
    /\ E.mustEmit > 0
    /\ Len(E.particles) >= 2
    /\ E.particles[1].active
    /\ E.particles[1].age = 0
    /\ ~E.particles[2].active

\* C16: an Update step moves every particle that stays active as a particle
\* attracted toward the emitter's live origin moves: its new velocity and
\* position are those Particle::Update gives with the live origin as the
\* attraction target, also when the particle was spawned before the origin
\* was moved.
C16_AttractionTracksLiveOrigin ==
    [][last'.op = "Update" =>
          \A i \in Slots :
             LET p == E.particles[i]
                 q == E2.particles[i]
                 live == ParticleUpdate([p EXCEPT !.origin = E.config.origin],
                                        last'.dt, E.config)
             IN (p.active /\ q.active) =>
                   (q.velocity = live.velocity /\ q.position = live.position)]_vars

\* C17: the value an Update (sequential traversal) has returned is the number
\* of slots that are active once it has returned.
C17_ReturnsActiveAtExit ==
    last.op = "Update" => last.ret = ActiveCount(E)

\* C18: an Update step that takes an active particle's age past its ttl
\* changes its age (by dt) and its active flag (to false) and no other field:
\* position, velocity and scale stay, no force and no collision is applied.
C18_ExpiryFrame ==
    [][last'.op = "Update" =>
          \A i \in Slots :
             LET p == E.particles[i]
                 q == E2.particles[i]
             IN (p.active /\ p.age + last'.dt > p.ttl) =>
                   q = [p EXCEPT !.age = p.age + last'.dt, !.active = FALSE]]_vars

\* An Update has expired a moving particle of an emitter with gravity: it
\* lies above the ground with the velocity it had.
C18_Witness ==
    /\ last.op = "Update"
    /\ E.config.gravity > 0
    /\ \E i \in Slots :
          /\ ~E.particles[i].active
          /\ E.particles[i].age > E.particles[i].ttl
          /\ E.particles[i].age - last.dt <= E.particles[i].ttl
          /\ E.particles[i].velocity # 0

\* ---------------------------------------------------------------- claims, age and emission
\* C19 (the sampled ttl of every configuration here is >= 0): before and
\* after every step each active particle has 0 <= age <= ttl.  A slot that
\* was active is never initialized: a step other than Update leaves it as it
\* is and an Update adds dt to its age.  A slot that was inactive either
\* stays exactly as it is, age included, or is initialized, which sets its
\* age to 0 (a Burst leaves it 0, an emitting Update then adds dt).
C19_AgeWithinLifetime ==
    [][\A i \in Slots :
          LET p == E.particles[i]
              q == E2.particles[i]
          IN /\ E.config.age.min >= 0
             /\ p.active => (0 <= p.age /\ p.age <= p.ttl)
             /\ q.active => (0 <= q.age /\ q.age <= q.ttl)
             /\ p.active =>
                   IF last'.op = "Update"
                   THEN q.age = p.age + last'.dt /\ q.ttl = p.ttl
                   ELSE q = p
             /\ ~p.active =>
                   \/ q = p
                   \/ last'.op = "Burst" /\ q.active /\ q.age = 0
                   \/ last'.op = "Update" /\ E.isEmitting /\ q.age = last'.dt]_vars

\* A Burst has initialized the second slot next to a particle that has aged
\* and is still within its lifetime.
C19_Witness ==
    /\ last.op = "Burst"
    /\ Len(E.particles) >= 2
    /\ E.particles[1].active
    /\ E.particles[1].age > 0
    /\ E.particles[1].age <= E.particles[1].ttl
    /\ E.particles[2].active
    /\ E.particles[2].age = 0

\* C20: emission is conserved step by step, so over any sequence of calls
\* mustEmit plus the particles initialized by Update is what the emitting
\* Updates fed: an emitting Update step leaves
\*     mustEmit' + (particles it initialized) = mustEmit + dt*emissionRate,
\* every other step leaves mustEmit as it is and (Burst aside) initializes
\* nothing, and mustEmit is never negative.  On a full pool the whole
\* dt*emissionRate stays in mustEmit; a whole particle held back in mustEmit
\* is spent by the first emitting Update that finds a slot inactive.  A slot
\* initialized by Update has age dt after the step, one initialized by Burst
\* has age 0.
C20_EmissionConserved ==
    [][/\ E.mustEmit >= 0
       /\ E2.mustEmit >= 0
       /\ (last'.op = "Update" /\ E.isEmitting) =>
             /\ E2.mustEmit + last'.inits * TicksPerSec
                    = E.mustEmit + last'.dt * E.config.emissionRate
             /\ InactiveCount(E) = 0 =>
                    (last'.inits = 0
                       /\ E2.mustEmit = E.mustEmit + last'.dt * E.config.emissionRate)
             /\ (E.mustEmit >= TicksPerSec /\ InactiveCount(E) >= 1) => last'.inits >= 1
       /\ (last'.op = "Update" /\ ~E.isEmitting) =>
             (last'.inits = 0 /\ E2.mustEmit = E.mustEmit)
       /\ last'.op \in {"Start", "Stop", "Burst"} => E2.mustEmit = E.mustEmit
       /\ \A i \in Slots :
             (~E.particles[i].active /\ E2.particles[i] # E.particles[i]) =>
                 /\ last'.op = "Update" => E2.particles[i].age = last'.dt
                 /\ last'.op = "Burst" => E2.particles[i].age = 0]_vars

\* An Update that fed less than one particle has initialized one and still
\* holds a whole particle in mustEmit: budget held back while the pool was
\* full is being spent.
C20_Witness ==
    /\ last.op = "Update"
    /\ E.isEmitting
    /\ last.inits >= 1
    /\ last.dt * E.config.emissionRate < TicksPerSec
    /\ E.mustEmit >= TicksPerSec

====
